---- MODULE Spec2Model ----
(***************************************************************************)
(* The batch-level stock ledger of the pharmacy POS: the tables batches,   *)
(* sales, sale_items, sale_item_batches and returns, and the intake, sale  *)
(* and return handlers that write them, in the revisions kept side by side *)
(* in the repository:                                                      *)
(*   "main"  mainproject.py (7.py has the same sale and return code)       *)
(*   "r3"    3.py  (BatchesTab / NewSaleTab / ReturnTab)                   *)
(*   "r4"    4.py  (App._build_pos_tab, CSV import)                        *)
(*   "bb"    bb_pos_fixed_final.py  (NewSaleTab, no return handler)        *)
(* Spec runs one application instance, one handler at a time: intake,      *)
(* checkout, return, and the inventory tabs' batch edit, batch delete and  *)
(* product delete.  SpecConc runs two instances of mainproject.py on one   *)
(* database, one committed statement at a time.  SpecCounter runs the      *)
(* revisions that keep one stock counter per product instead of batches:   *)
(*   "app"   pharmacy_app.py           "pos"   pharmacy_app_with_pos.py    *)
(***************************************************************************)
EXTENDS Integers, Sequences, FiniteSets, TLC

\* ---------------------------------------------------------------- bounds
MaxQty == 2          \* largest quantity typed into a form
MaxBatches == 2      \* rows of table batches
MaxSales == 1        \* rows of table sales
MaxReturns == 2      \* rows of table returns
MaxCart == 2         \* lines of one cart
MaxItems == 2        \* cart lines checked out in all when two instances sell at once
MaxMaint == 1        \* edits and deletions made in the inventory tabs
MaxCoReturns == 1    \* returns processed while two instances run at once
MaxStock == 2        \* largest products.stock typed into the product form
MaxLineQty == 2      \* largest quantity a cart line is merged up to
MaxMarked == 2       \* largest quantity marked for return on one sale item

\* The product ids the catalog can hold.
Products == {1, 2}
Revisions == {"main", "r3", "r4", "bb"}
\* The revisions that keep one stock counter per product (products.stock)
\* and have no batches: "app" pharmacy_app.py, "pos" pharmacy_app_with_pos.py.
CounterRevisions == {"app", "pos"}

VARIABLES
    rev,         \* the revision of the application that is running
    catalog,     \* table products: the ids of its rows
    batches,     \* table batches: row id = index; [product_id, batch_no, quantity,
                 \* cost_price, created_at, received]; received is history: the
                 \* quantity of the intake.  A deleted row keeps its index (ids
                 \* are AUTOINCREMENT, never reused) with product_id = 0.
    sales,       \* table sales: [total, lines]; lines is history (the cart's length)
    saleItems,   \* table sale_items: [sale_id, product_id, quantity, orig, pre]; orig
                 \* and pre are history (the quantity sold, the product's on-hand
                 \* quantity before the line); a deleted row has sale_id = 0
    allocs,      \* table sale_item_batches: [sale_item_id, batch_id, quantity]
    returns,     \* table returns: [sale_item_id, quantity]
    proc,        \* per application instance: the checkout handler's position and locals
    maint,       \* history: the number of edits and deletions made in the inventory tabs
    counter      \* the counter-based revisions (pharmacy_app.py, pharmacy_app_with_pos.py):
                 \* [stock, cart, sale_items, to_return, refused]; stock is column
                 \* products.stock, cart is NewSaleFrame.cart, sale_items and
                 \* to_return are ReturnFrame's; refused is history (a checkout
                 \* was refused)

vars == <<rev, catalog, batches, sales, saleItems, allocs, returns, proc, maint, counter>>

\* ---------------------------------------------------------------- helpers
Min(a, b) == IF a <= b THEN a ELSE b

RECURSIVE SumOver(_, _)
\* Sum of f over the finite set S of indices (f a function to integers).
SumOver(S, f) ==
    IF S = {} THEN 0
    ELSE LET x == CHOOSE y \in S : TRUE IN f[x] + SumOver(S \ {x}, f)

\* The rows that exist in tables batches and sale_items.
BatchRows(B) == {b \in DOMAIN B : B[b].product_id # 0}
SaleItemRows(I) == {i \in DOMAIN I : I[i].sale_id # 0}
BatchesOf(B, p) == {b \in DOMAIN B : B[b].product_id = p}

\* SELECT COALESCE(SUM(quantity),0) FROM batches WHERE product_id=?
OnHand(B, p) == SumOver(BatchesOf(B, p), [b \in DOMAIN B |-> B[b].quantity])

ItemsOfSale(I, s) == {i \in DOMAIN I : I[i].sale_id = s}
ItemsOfProduct(I, p) == {i \in DOMAIN I : I[i].product_id = p}
AllocsOfItem(A, i) == {a \in DOMAIN A : A[a].sale_item_id = i}
AllocSum(A, i) == SumOver(AllocsOfItem(A, i), [a \in DOMAIN A |-> A[a].quantity])
ReturnsOfItem(R, i) == {r \in DOMAIN R : R[r].sale_item_id = i}
ReturnSum(R, i) == SumOver(ReturnsOfItem(R, i), [r \in DOMAIN R |-> R[r].quantity])

\* now_str(): the wall clock at one-second resolution.  A new stamp is never
\* earlier than a stamp already stored, and may equal the latest one.
LastStamp(B) ==
    IF B = <<>> THEN 0
    ELSE CHOOSE t \in {B[b].created_at : b \in DOMAIN B} :
             \A b \in DOMAIN B : B[b].created_at <= t
NowStamps(B) == IF B = <<>> THEN {1} ELSE {LastStamp(B), LastStamp(B) + 1}

\* ---------------------------------------------------------------- intake
\* What the quantity field of the add-batch form (or an import row) may hold.
IntakeQtys == -1 .. MaxQty

\* mainproject.py App._add_batch.save and the batches branch of the imports:
\* int(d.get('quantity') or 0) goes into the INSERT as it is.
IntakeAcceptsMain(q) == TRUE
\* 3.py BatchesTab.add_item.save: if qty <= 0: return showerror(...)
IntakeAcceptsR3(q) == q > 0

IntakeAccepts(r, q) == IF r = "r3" THEN IntakeAcceptsR3(q) ELSE IntakeAcceptsMain(q)

Intake(p, q, t) ==
    /\ p \in catalog
    /\ Len(batches) < MaxBatches
    /\ IF IntakeAccepts(rev, q)
       THEN batches' = Append(batches,
                [product_id |-> p, batch_no |-> "LOT", quantity |-> q,
                 cost_price |-> 1, created_at |-> t, received |-> q])
       ELSE UNCHANGED batches
    /\ UNCHANGED <<rev, catalog, sales, saleItems, allocs, returns, proc, maint, counter>>

\* ---------------------------------------------------------------- sale
\* SELECT id, quantity FROM batches WHERE product_id=? AND quantity>0
\* ORDER BY created_at ASC: the rows in any order the ORDER BY allows (rows
\* with equal created_at come in an order SQL leaves open).
FifoCandidates(B, p) == {b \in BatchesOf(B, p) : B[b].quantity > 0}
FifoOrdersAsc(B, p) ==
    LET C == FifoCandidates(B, p)
        n == Cardinality(C)
    IN {s \in [1 .. n -> C] :
            /\ \A i, j \in 1 .. n : i < j => s[i] # s[j]
            /\ \A i, j \in 1 .. n :
                   i < j => B[s[i]].created_at <= B[s[j]].created_at}
FifoOrdersDesc(B, p) ==
    LET C == FifoCandidates(B, p)
        n == Cardinality(C)
    IN {s \in [1 .. n -> C] :
            /\ \A i, j \in 1 .. n : i < j => s[i] # s[j]
            /\ \A i, j \in 1 .. n :
                   i < j => B[s[i]].created_at >= B[s[j]].created_at}
FifoOrders(B, p) == FifoOrdersAsc(B, p)

\* take = min(remain, b['quantity'])
TakeMin(remain, q) == Min(remain, q)
TakeAll(remain, q) == remain
TakeBatch(remain, q) == q
Take(remain, q) == TakeMin(remain, q)

\* The quantity of batch b in the rows a cart line's query returns: the query
\* runs once per cart line (checkout calls the deduction inside its loop over
\* the cart), so it is the quantity stored when the line's walk begins, which
\* is what the earlier lines left.  st.start is table batches as it was when
\* checkout began.
QuantityReadPerLine(st, b) == st.batches[b].quantity
QuantityReadPerCheckout(st, b) == st.start[b].quantity
QuantityRead(st, b) == QuantityReadPerLine(st, b)

RECURSIVE FifoWalk(_, _, _, _, _)
\* NewSaleTab._fifo_deduct_with_batch_tracking, the loop: st = [catalog,
\* batches, saleItems, allocs, start], rows = the query's result (ids; the
\* quantity read is rows' quantity at query time, which no other statement
\* changes meanwhile).
FifoWalk(st, rows, k, remain, item) ==
    IF k > Len(rows) \/ remain <= 0 THEN st
    ELSE LET b == rows[k]
             take == Take(remain, QuantityRead(st, b))
         IN FifoWalk(
                [st EXCEPT
                    !.batches = [@ EXCEPT ![b].quantity = @ - take],
                    !.allocs = Append(@, [sale_item_id |-> item,
                                          batch_id |-> b, quantity |-> take])],
                rows, k + 1, remain - take, item)

\* One cart line: INSERT INTO sale_items, then the FIFO deduction.  The set
\* of ledgers the line can leave.
LineOutcomes(st, sid, line) ==
    LET it == [sale_id |-> sid, product_id |-> line.id,
               quantity |-> line.qty, orig |-> line.qty,
               pre |-> OnHand(st.batches, line.id)]
        st1 == [st EXCEPT !.saleItems = Append(@, it)]
        item == Len(st1.saleItems)
    IN {FifoWalk(st1, rows, 1, line.qty, item) :
            rows \in FifoOrders(st.batches, line.id)}

RECURSIVE CartOutcomes(_, _, _, _)
\* for i in self.cart: ...
\* A line whose product is no longer in table products: INSERT INTO sale_items
\* raises sqlite3.IntegrityError (FOREIGN KEY constraint failed, foreign_keys
\* is ON); checkout catches nothing, so the handler ends there and what the
\* earlier statements committed stays.
CartOutcomes(st, sid, cart, k) ==
    IF k > Len(cart) THEN {st}
    ELSE IF cart[k].id \notin st.catalog THEN {st}
    ELSE UNION {CartOutcomes(s2, sid, cart, k + 1) :
                    s2 \in LineOutcomes(st, sid, cart[k])}

\* The carts add_to_cart builds: every line names a product that was in the
\* catalog when it was added (a cart outlives later catalog edits) and has
\* qty > 0 (a quantity <= 0 is refused with "Enter quantity > 0").
CartLines == [id : Products, qty : 1 .. MaxQty]
Carts == UNION {[1 .. n -> CartLines] : n \in 1 .. MaxCart}

\* sale_price of the catalog's products.
Price(p) == 1
CartTotal(cart) ==
    SumOver(DOMAIN cart, [k \in DOMAIN cart |-> cart[k].qty * Price(cart[k].id)])

\* 4.py checkout, the check before anything is written: a line is short when
\* the product's summed batch quantity is below the line's quantity.
ShortLines4(B, cart) == {k \in DOMAIN cart : OnHand(B, cart[k].id) < cart[k].qty}
NoShortLines(B, cart) == {}
\* mainproject.py / 7.py / 3.py checkout: no check at all.
ShortLines(r, B, cart) == IF r = "r4" THEN ShortLines4(B, cart) ELSE NoShortLines(B, cart)

\* Table sale_item_batches after a checkout whose walks took the quantities
\* recorded in walked: mainproject.py / 7.py, 3.py and 4.py INSERT one row
\* per quantity taken; NewSaleTab._fifo_deduct of bb_pos_fixed_final.py runs
\* the same loop without the INSERT.
AllocsWritten(r, A, walked) == IF r = "bb" THEN A ELSE walked

Ledger == [catalog |-> catalog, batches |-> batches, saleItems |-> saleItems,
           allocs |-> allocs, start |-> batches]

Checkout(cart) ==
    /\ Len(sales) < MaxSales
    /\ IF ShortLines(rev, batches, cart) # {}
       THEN UNCHANGED <<batches, sales, saleItems, allocs>>
       ELSE /\ sales' = Append(sales, [total |-> CartTotal(cart), lines |-> Len(cart)])
            /\ \E out \in CartOutcomes(Ledger, Len(sales) + 1, cart, 1) :
                   /\ batches' = out.batches
                   /\ saleItems' = out.saleItems
                   /\ allocs' = AllocsWritten(rev, allocs, out.allocs)
    /\ UNCHANGED <<rev, catalog, returns, proc, maint, counter>>

\* ---------------------------------------------------------------- return
\* What the quantity field of the return form may hold.
ReturnQtys == -1 .. MaxQty

\* mainproject.py / 7.py App._process_return:
\*   if return_qty <= 0 or return_qty > int(qty): showerror; return
\* qty is the row of the return tree, reloaded from sale_items after every
\* return, so it is the stored sale_items.quantity.
ReturnRejectsMain(q, stored) == q <= 0 \/ q > stored
\* 3.py ReturnTab.process_return: if qty <= 0: return showwarning(...)
ReturnRejectsR3(q, stored) == q <= 0
ReturnRejects(r, q, stored) ==
    IF r = "r3" THEN ReturnRejectsR3(q, stored) ELSE ReturnRejectsMain(q, stored)

RECURSIVE GiveBack(_, _, _, _)
\* mainproject.py _process_return, step 2: the sale item's sale_item_batches
\* rows in id order (rows, a set of row ids); give_back = min(remain,
\* row quantity) goes back to the row's batch.
GiveBack(B, A, rows, remain) ==
    IF rows = {} \/ remain <= 0 THEN B
    ELSE LET a == CHOOSE x \in rows : \A y \in rows : x <= y
             give_back == Min(remain, A[a].quantity)
         IN GiveBack([B EXCEPT ![A[a].batch_id].quantity = @ + give_back],
                     A, rows \ {a}, remain - give_back)

\* The stored quantity of the sale item after an accepted return:
\* mainproject.py step 3, UPDATE sale_items SET quantity = quantity - ?
StoredAfterReturnMain(stored, q) == stored - q
\* 3.py writes nothing to sale_items.
StoredAfterReturnR3(stored, q) == stored
StoredAfterReturn(r, stored, q) ==
    IF r = "r3" THEN StoredAfterReturnR3(stored, q) ELSE StoredAfterReturnMain(stored, q)

\* Table sales across an accepted return: neither return handler runs a
\* statement on it.
SalesKept(S, sid, amount) == S
SalesRefunded(S, sid, amount) == [S EXCEPT ![sid].total = @ - amount]
SalesAfterReturn(S, sid, amount) == SalesKept(S, sid, amount)

ReturnMain(item, q) ==
    /\ rev = "main"
    /\ item \in SaleItemRows(saleItems)
    /\ Len(returns) < MaxReturns
    /\ IF ReturnRejects(rev, q, saleItems[item].quantity)
       THEN UNCHANGED <<batches, sales, saleItems, returns>>
       ELSE /\ returns' = Append(returns, [sale_item_id |-> item, quantity |-> q])
            /\ batches' = GiveBack(batches, allocs, AllocsOfItem(allocs, item), q)
            /\ saleItems' = [saleItems EXCEPT
                   ![item].quantity = StoredAfterReturn(rev, @, q)]
            /\ sales' = SalesAfterReturn(sales, saleItems[item].sale_id,
                                         q * Price(saleItems[item].product_id))
    /\ UNCHANGED <<rev, catalog, allocs, proc, maint, counter>>

\* SELECT id FROM batches WHERE product_id=? ORDER BY created_at DESC LIMIT 1:
\* a batch of the product with the latest created_at (any of them on a tie).
LatestBatches(B, p) ==
    {b \in BatchesOf(B, p) : \A c \in BatchesOf(B, p) : B[c].created_at <= B[b].created_at}
OldestBatches(B, p) ==
    {b \in BatchesOf(B, p) : \A c \in BatchesOf(B, p) : B[c].created_at >= B[b].created_at}
RestockTargets(B, p) == LatestBatches(B, p)

\* 3.py ReturnTab.process_return
Return3(item, q, t) ==
    /\ rev = "r3"
    /\ item \in SaleItemRows(saleItems)
    /\ Len(returns) < MaxReturns
    /\ LET p == saleItems[item].product_id IN
       IF ReturnRejects(rev, q, saleItems[item].quantity)
       THEN UNCHANGED <<batches, sales, saleItems, returns>>
       ELSE /\ returns' = Append(returns, [sale_item_id |-> item, quantity |-> q])
            /\ sales' = SalesAfterReturn(sales, saleItems[item].sale_id, q * Price(p))
            /\ IF BatchesOf(batches, p) # {}
               THEN \E b \in RestockTargets(batches, p) :
                        batches' = [batches EXCEPT ![b].quantity = @ + q]
               ELSE \* batch_no 'RETURN', cost_price 0.0, created_at now_str()
                    /\ Len(batches) < MaxBatches
                    /\ batches' = Append(batches,
                           [product_id |-> p, batch_no |-> "RETURN", quantity |-> q,
                            cost_price |-> 0, created_at |-> t, received |-> 0])
            /\ saleItems' = [saleItems EXCEPT
                   ![item].quantity = StoredAfterReturn(rev, @, q)]
    /\ UNCHANGED <<rev, catalog, allocs, proc, maint, counter>>

\* ---------------------------------------------------------------- maintenance
DeletedBatch(row) == [row EXCEPT !.product_id = 0, !.quantity = 0]
DeletedItem(row) ==
    [row EXCEPT !.sale_id = 0, !.product_id = 0, !.quantity = 0, !.orig = 0, !.pre = 0]

\* mainproject.py / 7.py, 3.py and bb_pos_fixed_final.py can edit and delete
\* batches and delete products; the inventory tab of 4.py only adds products.
HasEditAndDelete(r) == r \in {"main", "r3", "bb"}

\* 3.py BatchesTab.open_edit_dialog.save: if qty <= 0: return showerror(...);
\* mainproject.py App._edit_batch.save writes int(d.get('quantity') or 0) as it is.
EditAcceptsMain(q) == TRUE
EditAcceptsR3(q) == q > 0
EditAccepts(r, q) == IF r = "r3" THEN EditAcceptsR3(q) ELSE EditAcceptsMain(q)

\* What the quantity field of the edit form may hold.
EditQtys == 0 .. MaxQty

\* The quantity an accepted edit stores: the form's value.
EditedQuantity(stored, q) == q

\* Edit batch: UPDATE batches SET product_id=?, ..., quantity=?, ... WHERE id=?
\* with the product and the quantity of the form (the form's other fields as
\* they were loaded).
EditBatch(b, p, q) ==
    /\ HasEditAndDelete(rev)
    /\ maint < MaxMaint
    /\ maint' = maint + 1
    /\ b \in BatchRows(batches)
    /\ p \in catalog
    /\ IF EditAccepts(rev, q)
       THEN batches' = [batches EXCEPT
                ![b].product_id = p,
                ![b].quantity = EditedQuantity(@, q)]
       ELSE UNCHANGED batches
    /\ UNCHANGED <<rev, catalog, sales, saleItems, allocs, returns, proc, counter>>

\* ON DELETE CASCADE: the rows of a child table that reference a deleted row
\* go with it.
AllocsKept(A, goneBatches, goneItems) ==
    SelectSeq(A, LAMBDA a : a.batch_id \notin goneBatches /\ a.sale_item_id \notin goneItems)
AllocsAfterDelete(A, goneBatches, goneItems) == AllocsKept(A, goneBatches, goneItems)
ReturnsAfterDelete(R, goneItems) ==
    SelectSeq(R, LAMBDA r : r.sale_item_id \notin goneItems)

\* Delete batch: DELETE FROM batches WHERE id=?
DeleteBatch(b) ==
    /\ HasEditAndDelete(rev)
    /\ maint < MaxMaint
    /\ maint' = maint + 1
    /\ b \in BatchRows(batches)
    /\ batches' = [batches EXCEPT ![b] = DeletedBatch(@)]
    /\ allocs' = AllocsAfterDelete(allocs, {b}, {})
    /\ UNCHANGED <<rev, catalog, sales, saleItems, returns, proc, counter>>

\* Delete product: DELETE FROM products WHERE id=?  batches and sale_items
\* reference products ON DELETE CASCADE, sale_item_batches and returns
\* reference those.
DeleteProduct(p) ==
    /\ HasEditAndDelete(rev)
    /\ maint < MaxMaint
    /\ maint' = maint + 1
    /\ p \in catalog
    /\ LET goneBatches == BatchesOf(batches, p)
           goneItems == ItemsOfProduct(saleItems, p)
       IN /\ catalog' = catalog \ {p}
          /\ batches' = [b \in DOMAIN batches |->
                            IF b \in goneBatches THEN DeletedBatch(batches[b])
                            ELSE batches[b]]
          /\ saleItems' = [i \in DOMAIN saleItems |->
                              IF i \in goneItems THEN DeletedItem(saleItems[i])
                              ELSE saleItems[i]]
          /\ allocs' = AllocsAfterDelete(allocs, goneBatches, goneItems)
          /\ returns' = ReturnsAfterDelete(returns, goneItems)
    /\ UNCHANGED <<rev, sales, proc, counter>>

\* ---------------------------------------------------------------- low stock
\* The threshold written into every low-stock query: HAVING ... <= 5
LowStockThreshold == 5

\* mainproject.py dashboard card:
\*   SELECT COUNT(*) FROM (SELECT product_id, SUM(quantity) AS q FROM batches
\*                         GROUP BY product_id HAVING q <= 5)
\* The groups are the product ids that occur in table batches.
LowStockDashboardMain(cat, B) ==
    {p \in {B[b].product_id : b \in BatchRows(B)} : OnHand(B, p) <= LowStockThreshold}

\* 3.py Dashboard.low_stock_count (and the 4.py dashboard):
\*   SELECT p.id, COALESCE(SUM(b.quantity),0) AS stock FROM products p
\*   LEFT JOIN batches b ON b.product_id=p.id GROUP BY p.id HAVING stock <= 5
LowStockJoin(cat, B) == {p \in cat : OnHand(B, p) <= LowStockThreshold}

\* mainproject.py App._filter_inventory_low_stock: per product,
\*   COALESCE((SELECT SUM(quantity) FROM batches b WHERE b.product_id=p.id),0)
\*   AS stock ... HAVING stock<=5   (the medical and the non-medical list together)
LowStockFilterMain(cat, B) == {p \in cat : OnHand(B, p) <= LowStockThreshold}

\* The number on the dashboard's low-stock card.
LowStockCount(r, cat, B) ==
    IF r = "main" THEN Cardinality(LowStockDashboardMain(cat, B))
    ELSE Cardinality(LowStockJoin(cat, B))

\* ---------------------------------------------------------------- instances
\* Two application instances on the same pharmacy.db (web_login.py starts one
\* mainproject.py per successful login).  Every DB.execute / DB.query opens
\* its own connection and commits by itself, so one handler is a sequence of
\* separately committed statements; SpecConc interleaves them.
Procs == {1, 2}
Idle == [pc |-> "idle", cart |-> <<>>, k |-> 0, sid |-> 0, item |-> 0,
         rows |-> <<>>, j |-> 0, remain |-> 0, take |-> 0, return_qty |-> 0]

\* checkout, to the first statement: total = sum(...); INSERT INTO sales
CoBegin(p, cart) ==
    /\ proc[p].pc = "idle"
    /\ Len(sales) < Cardinality(Procs)
    /\ SumOver(DOMAIN sales, [x \in DOMAIN sales |-> sales[x].lines]) + Len(cart)
           <= MaxItems
    /\ sales' = Append(sales, [total |-> CartTotal(cart), lines |-> Len(cart)])
    /\ proc' = [proc EXCEPT ![p] =
           [Idle EXCEPT !.pc = "item", !.cart = cart, !.k = 1,
                        !.sid = Len(sales) + 1]]
    /\ UNCHANGED <<rev, catalog, batches, saleItems, allocs, returns, maint, counter>>

\* for i in self.cart: INSERT INTO sale_items
CoInsertItem(p) ==
    /\ proc[p].pc = "item"
    /\ proc[p].k <= Len(proc[p].cart)
    /\ LET line == proc[p].cart[proc[p].k] IN
       saleItems' = Append(saleItems,
           [sale_id |-> proc[p].sid, product_id |-> line.id,
            quantity |-> line.qty, orig |-> line.qty,
            pre |-> OnHand(batches, line.id)])
    /\ proc' = [proc EXCEPT ![p].pc = "query", ![p].item = Len(saleItems) + 1]
    /\ UNCHANGED <<rev, catalog, batches, sales, allocs, returns, maint, counter>>

\* _fifo_deduct_with_batch_tracking: batches = self.db.query(...); remain = qty_needed
\* The rows keep the quantities read now.
CoQuery(p) ==
    /\ proc[p].pc = "query"
    /\ LET line == proc[p].cart[proc[p].k] IN
       \E order \in FifoOrders(batches, line.id) :
           proc' = [proc EXCEPT
               ![p].pc = "loop",
               ![p].rows = [n \in DOMAIN order |->
                               [id |-> order[n], quantity |-> batches[order[n]].quantity]],
               ![p].j = 1,
               ![p].remain = line.qty]
    /\ UNCHANGED <<rev, catalog, batches, sales, saleItems, allocs, returns, maint, counter>>

\* UPDATE batches SET quantity=quantity-take WHERE id=b: the subtraction is
\* done by the database on the quantity stored now; take comes from the row read.
UpdateStored(stored, take) == stored - take
\* the same statement guarded by the stored quantity (a compare-and-swap)
UpdateGuarded(stored, take) == IF stored >= take THEN stored - take ELSE stored
UpdateQuantity(stored, take) == UpdateStored(stored, take)

\* for b in batches: if remain <= 0: break; take = min(...); UPDATE batches
CoUpdate(p) ==
    /\ proc[p].pc = "loop"
    /\ proc[p].j <= Len(proc[p].rows)
    /\ proc[p].remain > 0
    /\ LET row == proc[p].rows[proc[p].j]
           take == Take(proc[p].remain, row.quantity)
       IN /\ batches' = [batches EXCEPT ![row.id].quantity = UpdateQuantity(@, take)]
          /\ proc' = [proc EXCEPT ![p].pc = "alloc", ![p].take = take]
    /\ UNCHANGED <<rev, catalog, sales, saleItems, allocs, returns, maint, counter>>

\* INSERT INTO sale_item_batches; remain -= take
CoAlloc(p) ==
    /\ proc[p].pc = "alloc"
    /\ allocs' = Append(allocs,
           [sale_item_id |-> proc[p].item,
            batch_id |-> proc[p].rows[proc[p].j].id,
            quantity |-> proc[p].take])
    /\ proc' = [proc EXCEPT ![p].pc = "loop", ![p].j = @ + 1,
                            ![p].remain = @ - proc[p].take, ![p].take = 0]
    /\ UNCHANGED <<rev, catalog, batches, sales, saleItems, returns, maint, counter>>

\* the loop ends (rows exhausted or remain <= 0; a warning when remain > 0):
\* back in checkout, next cart line
CoWalkEnd(p) ==
    /\ proc[p].pc = "loop"
    /\ proc[p].j > Len(proc[p].rows) \/ proc[p].remain <= 0
    /\ proc' = [proc EXCEPT ![p].pc = "item", ![p].k = @ + 1,
                            ![p].rows = <<>>, ![p].j = 0, ![p].remain = 0,
                            ![p].item = 0]
    /\ UNCHANGED <<rev, catalog, batches, sales, saleItems, allocs, returns, maint, counter>>

\* after the last line: receipt, "Sale Complete", self.cart.clear()
CoFinish(p) ==
    /\ proc[p].pc = "item"
    /\ proc[p].k > Len(proc[p].cart)
    /\ proc' = [proc EXCEPT ![p] = Idle]
    /\ UNCHANGED <<rev, catalog, batches, sales, saleItems, allocs, returns, maint, counter>>

RECURSIVE InIdOrder(_)
\* The ids of a set of rows in ascending order (ORDER BY sib.id ASC).
InIdOrder(S) ==
    IF S = {} THEN <<>>
    ELSE LET a == CHOOSE x \in S : \A y \in S : x <= y
         IN <<a>> \o InIdOrder(S \ {a})

\* _process_return, to the first statement: the quantity is checked against
\* the row of the return tree, then INSERT INTO returns.
CoReturnBegin(p, item, q) ==
    /\ proc[p].pc = "idle"
    /\ item \in SaleItemRows(saleItems)
    /\ Len(returns) < MaxCoReturns
    /\ ~ReturnRejects(rev, q, saleItems[item].quantity)
    /\ returns' = Append(returns, [sale_item_id |-> item, quantity |-> q])
    /\ proc' = [proc EXCEPT ![p] =
           [Idle EXCEPT !.pc = "rquery", !.item = item, !.return_qty = q]]
    /\ UNCHANGED <<rev, catalog, batches, sales, saleItems, allocs, maint, counter>>

\* batches = self.db.query(SELECT sib.batch_id, sib.quantity ... ORDER BY
\* sib.id ASC); remain = return_qty
CoReturnQuery(p) ==
    /\ proc[p].pc = "rquery"
    /\ LET order == InIdOrder(AllocsOfItem(allocs, proc[p].item)) IN
       proc' = [proc EXCEPT
           ![p].pc = "rloop",
           ![p].rows = [n \in DOMAIN order |->
                           [id |-> allocs[order[n]].batch_id,
                            quantity |-> allocs[order[n]].quantity]],
           ![p].j = 1,
           ![p].remain = proc[p].return_qty]
    /\ UNCHANGED <<rev, catalog, batches, sales, saleItems, allocs, returns, maint, counter>>

\* for b in batches: if remain <= 0: break; give_back = min(...);
\* UPDATE batches SET quantity = quantity + give_back; remain -= give_back
CoReturnGive(p) ==
    /\ proc[p].pc = "rloop"
    /\ proc[p].j <= Len(proc[p].rows)
    /\ proc[p].remain > 0
    /\ LET row == proc[p].rows[proc[p].j]
           give_back == Min(proc[p].remain, row.quantity)
       IN /\ batches' = [batches EXCEPT ![row.id].quantity = @ + give_back]
          /\ proc' = [proc EXCEPT ![p].j = @ + 1, ![p].remain = @ - give_back]
    /\ UNCHANGED <<rev, catalog, sales, saleItems, allocs, returns, maint, counter>>

\* after the loop: UPDATE sale_items SET quantity = quantity - return_qty;
\* then the message box and the reload of the tree
CoReturnItem(p) ==
    /\ proc[p].pc = "rloop"
    /\ proc[p].j > Len(proc[p].rows) \/ proc[p].remain <= 0
    /\ saleItems' = [saleItems EXCEPT
           ![proc[p].item].quantity = StoredAfterReturn(rev, @, proc[p].return_qty)]
    /\ proc' = [proc EXCEPT ![p] = Idle]
    /\ UNCHANGED <<rev, catalog, batches, sales, allocs, returns, maint, counter>>

\* A statement of a handler raises (sqlite3.OperationalError "database is
\* locked" when the other instance holds the write lock): neither checkout nor
\* _process_return catches anything, the handler ends where it is and what it
\* committed stays.
CoRaise(p) ==
    /\ proc[p].pc \in {"item", "query", "loop", "alloc", "rquery", "rloop"}
    /\ proc' = [proc EXCEPT ![p] = Idle]
    /\ UNCHANGED <<rev, catalog, batches, sales, saleItems, allocs, returns, maint, counter>>

\* ---------------------------------------------------------------- counter
\* pharmacy_app.py and pharmacy_app_with_pos.py: NewSaleFrame.__init__ sets
\* self.cart = [], ReturnFrame.__init__ leaves nothing fetched or marked.
CounterIdle == [stock |-> [p \in Products |-> 0], cart |-> <<>>,
                sale_items |-> <<>>, to_return |-> <<>>, refused |-> FALSE]

\* What the Qty spinbox may hold: int(self.qty.get() or 1); the spinbox takes
\* typed text.
CartQtys == -1 .. MaxQty
\* The quantities a cart line is followed through, and the quantities marked
\* for return on one sale item.
LineQtys == -1 .. MaxLineQty
MarkedQtys == -1 .. MaxMarked

\* for c in self.cart: if c['product_id']==item['id']: c['qty']+=qty; return
\* self.cart.append({'product_id': ..., 'qty': qty})
MergedCart(cart, p, qty) ==
    IF \E k \in DOMAIN cart : cart[k].product_id = p
    THEN [k \in DOMAIN cart |->
             IF cart[k].product_id = p THEN [cart[k] EXCEPT !.qty = @ + qty]
             ELSE cart[k]]
    ELSE Append(cart, [product_id |-> p, qty |-> qty])

\* NewSaleFrame.search_add / add_selected, the check:
\*   if item['stock'] < qty: showerror('Stock','Not enough stock'); return
AddRefused(stock, qty) == stock < qty

\* NewSaleFrame.search_add: the quantity of the spinbox
SearchAdd(p, qty) ==
    /\ rev \in CounterRevisions
    /\ Len(sales) < MaxSales
    /\ p \in catalog
    /\ LET merged == MergedCart(counter.cart, p, qty) IN
       /\ \A k \in DOMAIN merged : merged[k].qty \in LineQtys
       /\ IF AddRefused(counter.stock[p], qty)
          THEN UNCHANGED counter
          ELSE counter' = [counter EXCEPT !.cart = merged]
    /\ UNCHANGED <<rev, catalog, batches, sales, saleItems, allocs, returns, proc, maint>>

\* NewSaleFrame.add_selected: qty = 1
AddSelected(p) ==
    /\ rev \in CounterRevisions
    /\ Len(sales) < MaxSales
    /\ p \in catalog
    /\ LET merged == MergedCart(counter.cart, p, 1) IN
       /\ \A k \in DOMAIN merged : merged[k].qty \in LineQtys
       /\ IF AddRefused(counter.stock[p], 1)
          THEN UNCHANGED counter
          ELSE counter' = [counter EXCEPT !.cart = merged]
    /\ UNCHANGED <<rev, catalog, batches, sales, saleItems, allocs, returns, proc, maint>>

\* NewSaleFrame.checkout, the first loop:
\*   if not r or int(r['stock']) < c['qty']: showerror(...); return
CounterShortLinesChecked(stock, cart) ==
    {k \in DOMAIN cart : stock[cart[k].product_id] < cart[k].qty}
CounterShortLinesNone(stock, cart) == {}
CounterShortLines(stock, cart) == CounterShortLinesChecked(stock, cart)

RECURSIVE StockAfterSale(_, _, _)
\* UPDATE products SET stock = stock - ? WHERE id=?   for every cart line
StockAfterSale(stock, cart, k) ==
    IF k > Len(cart) THEN stock
    ELSE StockAfterSale([stock EXCEPT ![cart[k].product_id] = @ - cart[k].qty],
                        cart, k + 1)

\* INSERT INTO sale_items(sale_id, product_id, quantity, ...)  per cart line
CounterItems(stock, cart, sid) ==
    [k \in DOMAIN cart |->
        [sale_id |-> sid, product_id |-> cart[k].product_id,
         quantity |-> cart[k].qty, orig |-> cart[k].qty,
         pre |-> stock[cart[k].product_id]]]

\* subtotal = sum(ci['qty']*ci['unit_price'] for ci in self.cart)
CounterTotal(cart) ==
    SumOver(DOMAIN cart,
            [k \in DOMAIN cart |-> cart[k].qty * Price(cart[k].product_id)])

\* NewSaleFrame.checkout: one connection, the check of every line first, then
\* the INSERTs and UPDATEs, one commit; self.cart = [] after a recorded sale.
CounterCheckout ==
    /\ rev \in CounterRevisions
    /\ counter.cart # <<>>
    /\ Len(sales) < MaxSales
    /\ IF CounterShortLines(counter.stock, counter.cart) # {}
       THEN /\ counter' = [counter EXCEPT !.refused = TRUE]
            /\ UNCHANGED <<sales, saleItems>>
       ELSE /\ sales' = Append(sales, [total |-> CounterTotal(counter.cart),
                                       lines |-> Len(counter.cart)])
            /\ saleItems' = saleItems \o
                   CounterItems(counter.stock, counter.cart, Len(sales) + 1)
            /\ counter' = [counter EXCEPT
                   !.stock = StockAfterSale(@, counter.cart, 1),
                   !.cart = <<>>]
    /\ UNCHANGED <<rev, catalog, batches, allocs, returns, proc, maint>>

\* What the Stock field of the product form may hold.
StockQtys == 0 .. MaxStock

\* InventoryTab.edit.save: UPDATE products SET ..., stock=? WHERE id=?
EditStock(p, q) ==
    /\ rev \in CounterRevisions
    /\ maint < MaxMaint
    /\ maint' = maint + 1
    /\ p \in catalog
    /\ counter' = [counter EXCEPT !.stock[p] = q]
    /\ UNCHANGED <<rev, catalog, batches, sales, saleItems, allocs, returns, proc>>

\* ReturnFrame.fetch_sale: self.sale_items = the sale's sale_items rows (id,
\* quantity); self.to_return = {}
FetchedItems(I, s) ==
    LET order == InIdOrder(ItemsOfSale(I, s))
    IN [n \in DOMAIN order |->
           [sale_item_id |-> order[n], quantity |-> I[order[n]].quantity]]

FetchSale(s) ==
    /\ rev = "pos"
    /\ s \in DOMAIN sales
    /\ counter' = [counter EXCEPT !.sale_items = FetchedItems(saleItems, s),
                                  !.to_return = <<>>]
    /\ UNCHANGED <<rev, catalog, batches, sales, saleItems, allocs, returns, proc, maint>>

\* ReturnFrame.mark_return, the check:
\*   if qty > item['quantity']: showerror('Error','Return qty exceeds sold qty'); return
MarkRefused(qty, sold) == qty > sold

\* self.to_return[sid] = self.to_return.get(sid, 0) + qty
MarkedAfter(marks, sid, qty) ==
    IF \E k \in DOMAIN marks : marks[k].sale_item_id = sid
    THEN [k \in DOMAIN marks |->
             IF marks[k].sale_item_id = sid THEN [marks[k] EXCEPT !.quantity = @ + qty]
             ELSE marks[k]]
    ELSE Append(marks, [sale_item_id |-> sid, quantity |-> qty])

\* ReturnFrame.mark_return for row n of the fetched sale's items
MarkReturn(n, qty) ==
    /\ rev = "pos"
    /\ n \in DOMAIN counter.sale_items
    /\ LET item == counter.sale_items[n]
           marked == MarkedAfter(counter.to_return, item.sale_item_id, qty)
       IN /\ \A k \in DOMAIN marked : marked[k].quantity \in MarkedQtys
          /\ Len(returns) + Len(marked) <= MaxReturns
          /\ IF MarkRefused(qty, item.quantity)
             THEN UNCHANGED counter
             ELSE counter' = [counter EXCEPT !.to_return = marked]
    /\ UNCHANGED <<rev, catalog, batches, sales, saleItems, allocs, returns, proc, maint>>

RECURSIVE StockAfterReturn(_, _, _, _)
\* for sid, qty in self.to_return.items():
\*     UPDATE products SET stock = stock + ? WHERE id=?
StockAfterReturn(stock, marks, I, k) ==
    IF k > Len(marks) THEN stock
    ELSE StockAfterReturn(
             [stock EXCEPT ![I[marks[k].sale_item_id].product_id] = @ + marks[k].quantity],
             marks, I, k + 1)

\* ReturnFrame.process_return: one connection: INSERT INTO returns, for every
\* marked item INSERT INTO return_items and the stock UPDATE, one commit;
\* then self.to_return = {} and self.fetch_sale().  Table sale_items is not
\* written.
ProcessReturn ==
    /\ rev = "pos"
    /\ counter.to_return # <<>>
    /\ Len(returns) + Len(counter.to_return) <= MaxReturns
    /\ returns' = returns \o counter.to_return
    /\ counter' = [counter EXCEPT
           !.stock = StockAfterReturn(@, counter.to_return, saleItems, 1),
           !.to_return = <<>>,
           !.sale_items =
               IF @ = <<>> THEN @
               ELSE FetchedItems(saleItems, saleItems[@[1].sale_item_id].sale_id)]
    /\ UNCHANGED <<rev, catalog, batches, sales, saleItems, allocs, proc, maint>>

\* The stock the products were added with (InventoryTab.add.save:
\* int(d.get('stock') or 0)).
InitCounter ==
    /\ rev \in CounterRevisions
    /\ catalog = Products
    /\ batches = <<>>
    /\ sales = <<>>
    /\ saleItems = <<>>
    /\ allocs = <<>>
    /\ returns = <<>>
    /\ proc = [p \in Procs |-> Idle]
    /\ maint = 0
    /\ \E st \in [Products -> StockQtys] : counter = [CounterIdle EXCEPT !.stock = st]

NextCounter ==
    \/ \E p \in Products, qty \in CartQtys : SearchAdd(p, qty)
    \/ \E p \in Products : AddSelected(p)
    \/ CounterCheckout
    \/ \E p \in Products, q \in StockQtys : EditStock(p, q)
    \/ \E s \in DOMAIN sales : FetchSale(s)
    \/ \E n \in DOMAIN counter.sale_items, qty \in ReturnQtys : MarkReturn(n, qty)
    \/ ProcessReturn

SpecCounter == InitCounter /\ [][NextCounter]_vars

Init ==
    /\ rev \in Revisions
    /\ catalog = Products
    /\ batches = <<>>
    /\ sales = <<>>
    /\ saleItems = <<>>
    /\ allocs = <<>>
    /\ returns = <<>>
    /\ proc = [p \in Procs |-> Idle]
    /\ maint = 0
    /\ counter = CounterIdle

Next ==
    \/ \E p \in Products, q \in IntakeQtys, t \in NowStamps(batches) : Intake(p, q, t)
    \/ \E cart \in Carts : Checkout(cart)
    \/ \E item \in DOMAIN saleItems, q \in ReturnQtys : ReturnMain(item, q)
    \/ \E item \in DOMAIN saleItems, q \in ReturnQtys, t \in NowStamps(batches) :
           Return3(item, q, t)
    \/ \E b \in DOMAIN batches, p \in Products, q \in EditQtys : EditBatch(b, p, q)
    \/ \E b \in DOMAIN batches : DeleteBatch(b)
    \/ \E p \in Products : DeleteProduct(p)

Spec == Init /\ [][Next]_vars

\* The ledgers the instances start from: stocked by intakes of quantity > 0
\* at distinct times (the race below needs no invalid intake).
StockedLedgers ==
    UNION {{B \in [1 .. n -> [product_id : Products, batch_no : {"LOT"},
                              quantity : 1 .. MaxQty, cost_price : {1},
                              created_at : 1 .. n, received : 1 .. MaxQty]] :
                \A b \in 1 .. n : B[b].created_at = b /\ B[b].received = B[b].quantity} :
           n \in 1 .. MaxBatches}

InitConc ==
    /\ rev = "main"
    /\ catalog = Products
    /\ batches \in StockedLedgers
    /\ sales = <<>>
    /\ saleItems = <<>>
    /\ allocs = <<>>
    /\ returns = <<>>
    /\ proc = [p \in Procs |-> Idle]
    /\ maint = 0
    /\ counter = CounterIdle

NextConc ==
    \E p \in Procs :
        \/ \E cart \in Carts : CoBegin(p, cart)
        \/ CoInsertItem(p)
        \/ CoQuery(p)
        \/ CoUpdate(p)
        \/ CoAlloc(p)
        \/ CoWalkEnd(p)
        \/ CoFinish(p)
        \/ \E item \in DOMAIN saleItems, q \in ReturnQtys : CoReturnBegin(p, item, q)
        \/ CoReturnQuery(p)
        \/ CoReturnGive(p)
        \/ CoReturnItem(p)
        \/ CoRaise(p)

SpecConc == InitConc /\ [][NextConc]_vars

\* ================================================================ claims
\* The quantity taken in for product p: the sum over its intake rows.
Received(B, p) == SumOver(BatchesOf(B, p), [b \in DOMAIN B |-> B[b].received])
SoldStored(I, p) == SumOver(ItemsOfProduct(I, p), [i \in DOMAIN I |-> I[i].quantity])
ReturnedOf(R, I, p) ==
    SumOver({r \in DOMAIN R : I[R[r].sale_item_id].product_id = p},
            [r \in DOMAIN R |-> R[r].quantity])
\* The positive stock the FIFO walk can draw on.
Sellable(B, p) == SumOver(FifoCandidates(B, p), [b \in DOMAIN B |-> B[b].quantity])
Demand(cart, p) ==
    SumOver({k \in DOMAIN cart : cart[k].id = p}, [k \in DOMAIN cart |-> cart[k].qty])
\* Some line of the cart runs out of stock during the walk.
CartShort(B, cart) == \E p \in Products : Demand(cart, p) > Sellable(B, p)
NonNegative(B) == \A b \in DOMAIN B : B[b].quantity >= 0

\* C1: every batch's quantity is >= 0 in every state reached by intake, sale
\* and return operations run one at a time.
C1_NonNegativity == NonNegative(batches)

\* Sales and returns by themselves never make a non-negative ledger negative
\* (what is left of C1 once intake is set aside).
SaleReturnKeepNonNegative ==
    [][(NonNegative(batches) /\ Len(batches') = Len(batches) /\ maint' = maint)
          => NonNegative(batches')]_vars

\* C2: a checkout of a multi-line cart in which a line is short of stock leaves
\* the ledger unchanged: no sales, sale_items or sale_item_batches row, no
\* batch quantity changed.
C2_AllOrNothing ==
    [][\A cart \in Carts :
          (Len(cart) >= 2 /\ CartShort(batches, cart) /\ Checkout(cart))
              => UNCHANGED <<batches, sales, saleItems, allocs>>]_vars

\* C3: in every committed state each sale item's allocation quantities sum to
\* exactly the quantity recorded on the item at sale time (a short line commits
\* no partial allocation).
C3_AllocationsMatchSale ==
    \A i \in DOMAIN saleItems : AllocSum(allocs, i) = saleItems[i].orig

\* C4: for every product, the sum of its batch quantities = total intake - the
\* quantity recorded as sold on its sale items + the quantity in its returns rows.
C4_Conservation ==
    \A p \in Products :
        OnHand(batches, p) =
            Received(batches, p) - SoldStored(saleItems, p)
                + ReturnedOf(returns, saleItems, p)

\* A step that stores a sales row: a checkout.
SaleStep == Len(sales') = Len(sales) + 1

\* C5: for batches B1 (earlier created_at) and B2 (later) of one product, with
\* B1 in stock before the sale, a sale decrements B2 only if it leaves B1 at zero.
C5_FifoOrder ==
    [][\A b1, b2 \in DOMAIN batches :
          ( /\ SaleStep
            /\ batches[b1].product_id = batches[b2].product_id
            /\ batches[b1].created_at < batches[b2].created_at
            /\ batches[b1].quantity > 0
            /\ batches'[b2].quantity < batches[b2].quantity )
              => batches'[b1].quantity = 0]_vars

\* A sale line has drawn on an earlier and on a later batch of its product, and
\* the earlier one stands at zero.
C5_Witness ==
    \E a1, a2 \in DOMAIN allocs :
        /\ allocs[a1].sale_item_id = allocs[a2].sale_item_id
        /\ batches[allocs[a1].batch_id].created_at
               < batches[allocs[a2].batch_id].created_at
        /\ batches[allocs[a1].batch_id].quantity = 0
        /\ allocs[a2].quantity > 0
        /\ batches[allocs[a2].batch_id].quantity > 0

\* The quantity the sale_item_batches rows record as drawn from batch b.
AllocatedFrom(A, b) ==
    SumOver({a \in DOMAIN A : A[a].batch_id = b}, [a \in DOMAIN A |-> A[a].quantity])

\* The quantity taken out of batch b since its intake.
Drawn(B, b) == B[b].received - B[b].quantity

\* C6: two sales of one product running at once (two instances on the same
\* database, statements interleaved) never take a batch below zero.
C6_NoConcurrentOverdraw ==
    \A b \in DOMAIN batches : Drawn(batches, b) <= batches[b].received

\* C7: a sale is one atomic unit: in no committed state does a sales row lack
\* the sale_items row of one of its cart lines, or a sale item lack the stock
\* deduction it can get, or a deduction lack its sale_item_batches row.
C7_SaleAtomicity ==
    /\ \A s \in DOMAIN sales :
           Cardinality(ItemsOfSale(saleItems, s)) = sales[s].lines
    /\ \A i \in DOMAIN saleItems :
           \/ AllocSum(allocs, i) = saleItems[i].orig
           \/ Sellable(batches, saleItems[i].product_id) = 0
    /\ \A b \in DOMAIN batches : Drawn(batches, b) = AllocatedFrom(allocs, b)

\* C8: a return whose quantity is <= 0 or above the item's current
\* quantity_sold (original minus prior returns) is rejected, in every revision:
\* so every returns row is positive and an item's returns never exceed what
\* was sold on it.
C8_ReturnPrecondition ==
    /\ \A r \in DOMAIN returns : returns[r].quantity > 0
    /\ \A i \in DOMAIN saleItems : ReturnSum(returns, i) <= saleItems[i].orig

\* C9: each sale item's stored quantity = its original quantity - the sum of
\* the returns rows against it, and is >= 0.
C9_StoredQuantity ==
    \A i \in DOMAIN saleItems :
        /\ saleItems[i].quantity = saleItems[i].orig - ReturnSum(returns, i)
        /\ saleItems[i].quantity >= 0
\* A step that stores a returns row, and the row.
AcceptedReturn == Len(returns') = Len(returns) + 1
NewReturn == returns'[Len(returns')]

C11_ReturnRaisesOnHand ==
    [][AcceptedReturn =>
          LET p == saleItems[NewReturn.sale_item_id].product_id
          IN OnHand(batches', p) = OnHand(batches, p) + NewReturn.quantity]_vars

\* 3.py does what C11 says (its return adds the quantity to one batch of the
\* product, or to a new one).
ReturnRaisesOnHandR3 ==
    [][(AcceptedReturn /\ rev = "r3") =>
          LET p == saleItems[NewReturn.sale_item_id].product_id
          IN OnHand(batches', p) = OnHand(batches, p) + NewReturn.quantity]_vars

\* C12: a return processed for a product that has no batch at all creates a
\* batch of that product with lot label "RETURN", cost price 0, created_at =
\* now and the returned quantity.
C12_SyntheticReturnBatch ==
    [][AcceptedReturn =>
          LET p == saleItems[NewReturn.sale_item_id].product_id
          IN BatchesOf(batches, p) = {} =>
                /\ Len(batches') = Len(batches) + 1
                /\ batches'[Len(batches')].product_id = p
                /\ batches'[Len(batches')].batch_no = "RETURN"
                /\ batches'[Len(batches')].cost_price = 0
                /\ batches'[Len(batches')].quantity = NewReturn.quantity
                /\ batches'[Len(batches')].created_at \in NowStamps(batches)]_vars

\* C13: the product's on-hand quantity is as a sale line of quantity q left it
\* (what it was before the line, less what the line drew); returning q against
\* the line puts it back to what it was before the line.
C13_SellThenReturn ==
    [][AcceptedReturn =>
          LET item == NewReturn.sale_item_id
              p == saleItems[item].product_id
          IN ( /\ NewReturn.quantity = saleItems[item].orig
               /\ ReturnsOfItem(returns, item) = {}
               /\ OnHand(batches, p) = saleItems[item].pre - AllocSum(allocs, item) )
                 => OnHand(batches', p) = saleItems[item].pre]_vars

\* mainproject.py / 7.py, no edit or deletion made in the inventory tabs: the
\* return gives back what the line drew, so C13 holds there.
SellThenReturnMain ==
    [][(AcceptedReturn /\ rev = "main" /\ maint = 0) =>
          LET item == NewReturn.sale_item_id
              p == saleItems[item].product_id
          IN ( /\ NewReturn.quantity = saleItems[item].orig
               /\ ReturnsOfItem(returns, item) = {}
               /\ OnHand(batches, p) = saleItems[item].pre - AllocSum(allocs, item) )
                 => OnHand(batches', p) = saleItems[item].pre]_vars

\* C14: the quantity of an existing batch changes only in a sale (downwards)
\* or in a return (upwards).
C14_OnlySaleAndReturnMutate ==
    [][\A b \in BatchRows(batches) \cap BatchRows(batches') :
          /\ batches'[b].quantity < batches[b].quantity => SaleStep
          /\ batches'[b].quantity > batches[b].quantity => AcceptedReturn]_vars

\* C15: a sale_item_batches row, once created, is present in every later state.
C15_AllocationsNeverDeleted ==
    [][/\ Len(allocs') >= Len(allocs)
       /\ SubSeq(allocs', 1, Len(allocs)) = allocs]_vars

\* A step that stores a batch row, and the row.
NewBatchStep == Len(batches') = Len(batches) + 1
NewBatch == batches'[Len(batches')]

\* C16: every batch row created by intake (add-batch dialog, batch import) has
\* quantity > 0; an intake with quantity <= 0 creates no row.
C16_IntakeValidation ==
    [][(NewBatchStep /\ NewBatch.batch_no # "RETURN") => NewBatch.quantity > 0]_vars

\* C17: a return is one atomic unit: in no committed state is a returns row
\* stored while the sale item's decrement is not applied or a batch increment
\* of that return is still to come (a return that stops part-way leaves no
\* returns row).
C17_ReturnAtomicity ==
    /\ \A i \in DOMAIN saleItems :
           saleItems[i].quantity = saleItems[i].orig - ReturnSum(returns, i)
    /\ \A p \in Procs :
           ~(proc[p].pc = "rloop" /\ proc[p].j <= Len(proc[p].rows) /\ proc[p].remain > 0)

\* C18: a checkout whose cart names a product that is no longer in the catalog
\* commits nothing: no sales, sale_items or sale_item_batches row, no batch change.
C18_MissingProductCheckout ==
    [][\A cart \in Carts :
          ((\E k \in DOMAIN cart : cart[k].id \notin catalog) /\ Checkout(cart))
              => UNCHANGED <<batches, sales, saleItems, allocs>>]_vars

\* C19: for every sale item, its allocation quantities sum to at most the
\* quantity originally requested on the line.
C19_AllocationsWithinRequest ==
    \A i \in DOMAIN saleItems : AllocSum(allocs, i) <= saleItems[i].orig

\* A line of two units drew one unit from each of two batches, and a line was
\* allocated less than it asked for.
C19_Witness ==
    /\ \E i \in SaleItemRows(saleItems) :
           /\ Cardinality(AllocsOfItem(allocs, i)) = 2
           /\ AllocSum(allocs, i) = saleItems[i].orig
    /\ \E i \in SaleItemRows(saleItems) :
           /\ AllocsOfItem(allocs, i) # {}
           /\ AllocSum(allocs, i) < saleItems[i].orig

\* C20: a return leaves table sales as it was: the sale's total stays the
\* value stored at checkout.
C20_ReturnKeepsSaleTotal ==
    [][AcceptedReturn => sales' = sales]_vars

\* The total a sale stores is the sum of its lines' prices at the quantities
\* asked for, and stays so whatever is returned.
SaleTotalIsCheckoutTotal ==
    \A s \in DOMAIN sales :
        Cardinality(ItemsOfSale(saleItems, s)) = sales[s].lines =>
            sales[s].total =
                SumOver(ItemsOfSale(saleItems, s),
                        [i \in DOMAIN saleItems |->
                            saleItems[i].orig * Price(saleItems[i].product_id)])

\* A sale line was returned in full: its stored quantity is zero and its
\* sale's total is still the price of what was sold.
C20_Witness ==
    \E r \in DOMAIN returns :
        LET item == returns[r].sale_item_id IN
        /\ saleItems[item].quantity = 0
        /\ saleItems[item].orig > 0
        /\ sales[saleItems[item].sale_id].total >= saleItems[item].orig

\* C21: every line of every committed sale has quantity > 0, whatever
\* add-to-cart operations (the same product added again included) came before
\* the checkout, in every revision.
C21_PositiveSaleLines ==
    \A i \in SaleItemRows(saleItems) : saleItems[i].orig > 0

\* The products the catalog holds whose on-hand quantity is at or below the
\* threshold (0 for a product without batches).
AtOrBelowThreshold(cat, B) == {p \in cat : OnHand(B, p) <= LowStockThreshold}

\* C22: the low-stock selection is exactly the products whose summed on-hand
\* quantity (0 without batches) is <= the threshold, and the dashboard's
\* low-stock count is the number of those products.
C22_LowStock ==
    /\ LowStockFilterMain(catalog, batches) = AtOrBelowThreshold(catalog, batches)
    /\ LowStockCount(rev, catalog, batches)
           = Cardinality(AtOrBelowThreshold(catalog, batches))

\* The dashboards of the other revisions count what C22 says.
LowStockCountJoinRevisions ==
    rev # "main" =>
        LowStockCount(rev, catalog, batches)
            = Cardinality(AtOrBelowThreshold(catalog, batches))

\* The quantity a step's new sale_item_batches rows record for batch b.
NewlyAllocated(b) == AllocatedFrom(allocs', b) - AllocatedFrom(allocs, b)

\* C24: in every revision of the sale path each batch decrement of a checkout
\* has its sale_item_batches row (same batch, same amount, amount >= 1): what
\* the checkout takes out of a batch is what its new rows record for it.
C24_DecrementsRecorded ==
    [][SaleStep =>
          /\ \A b \in DOMAIN batches :
                 batches[b].quantity - batches'[b].quantity = NewlyAllocated(b)
          /\ \A a \in DOMAIN allocs' \ DOMAIN allocs : allocs'[a].quantity >= 1]_vars

\* The sale paths of mainproject.py / 7.py, 3.py and 4.py do what C24 says.
DecrementsRecordedWithTracking ==
    [][(SaleStep /\ rev # "bb") =>
          /\ \A b \in DOMAIN batches :
                 batches[b].quantity - batches'[b].quantity = NewlyAllocated(b)
          /\ \A a \in DOMAIN allocs' \ DOMAIN allocs : allocs'[a].quantity >= 1]_vars

\* C23: of two batches of one product with the same created_at, a sale draws
\* on the one with the smaller id first: it decrements the other only if it
\* leaves the first at zero.
C23_FifoTieBreak ==
    [][\A b1, b2 \in DOMAIN batches :
          ( /\ SaleStep
            /\ batches[b1].product_id = batches[b2].product_id
            /\ batches[b1].created_at = batches[b2].created_at
            /\ b1 < b2
            /\ batches[b1].quantity > 0
            /\ batches'[b2].quantity < batches[b2].quantity )
              => batches'[b1].quantity = 0]_vars

\* The sale items a step stores.
NewItems == DOMAIN saleItems' \ DOMAIN saleItems

\* C25: in 4.py a checkout that passes the shortage check allocates every
\* cart line in full, carts with two lines for one product included.
C25_CheckedCartFullyAllocated ==
    [][(rev = "r4" /\ SaleStep) =>
          \A i \in NewItems : AllocSum(allocs', i) = saleItems'[i].orig]_vars

\* 4.py, carts whose lines name different products: a checkout that passes the
\* check allocates every line in full.
CheckedCartDistinctProducts ==
    [][(rev = "r4" /\ SaleStep
          /\ \A i, j \in NewItems :
                 i # j => saleItems'[i].product_id # saleItems'[j].product_id) =>
          \A i \in NewItems : AllocSum(allocs', i) = saleItems'[i].orig]_vars

\* C26: in mainproject.py / 7.py the returns against a sale item give back to
\* a batch at most what the item's sale_item_batches rows drew from it, so
\* (intake, sales and returns only) no batch stands above its intake quantity.
C26_GiveBackWithinAllocation ==
    (rev = "main" /\ maint = 0) =>
        \A b \in DOMAIN batches : batches[b].quantity <= batches[b].received

\* C27: every sale_item_batches row names a batch of the product its sale
\* item names, in every state, batch edits included.
C27_AllocationSameProduct ==
    \A a \in DOMAIN allocs :
        batches[allocs[a].batch_id].product_id
            = saleItems[allocs[a].sale_item_id].product_id

\* Without an edit or a deletion in the inventory tabs C27 holds.
AllocationSameProductNoEdit ==
    maint = 0 => C27_AllocationSameProduct

\* C28: a checkout allocates from a batch, over all its cart lines (two lines
\* for one product included), at most the quantity the batch held before the
\* checkout, and the batch is left with the difference.
C28_CheckoutWithinBatch ==
    [][SaleStep =>
          \A b \in DOMAIN batches :
              NewlyAllocated(b) > 0 =>
                  /\ NewlyAllocated(b) <= batches[b].quantity
                  /\ batches'[b].quantity = batches[b].quantity - NewlyAllocated(b)]_vars

\* One sale has two lines for one product; both drew on the same batch, the
\* second found less than it asked for, and the batch stands at zero.
C28_Witness ==
    /\ maint = 0
    /\ returns = <<>>
    /\ \E a1, a2 \in DOMAIN allocs :
           LET i1 == allocs[a1].sale_item_id
               i2 == allocs[a2].sale_item_id
           IN /\ i1 < i2
              /\ saleItems[i1].sale_id = saleItems[i2].sale_id
              /\ saleItems[i1].product_id = saleItems[i2].product_id
              /\ allocs[a1].batch_id = allocs[a2].batch_id
              /\ AllocSum(allocs, i2) < saleItems[i2].orig
              /\ batches[allocs[a1].batch_id].quantity = 0

\* C29: in pharmacy_app_with_pos.py the quantity returned against a sale item,
\* over all mark_return and process_return calls, is at most the quantity
\* sold on it, so (no stock edit made) returns leave products.stock at or
\* below its value before the sale.
C29_CounterReturnsWithinSold ==
    \A i \in SaleItemRows(saleItems) :
        saleItems[i].orig > 0 =>
            /\ ReturnSum(returns, i) <= saleItems[i].orig
            /\ maint = 0 => counter.stock[saleItems[i].product_id] <= saleItems[i].pre

\* C30: in the counter-based revisions a checkout whose cart has a line above
\* the product's stock stores nothing: table sales, table sale_items and every
\* products.stock stay as they were.
C30_ShortCheckoutStoresNothing ==
    [][( /\ CounterCheckout
         /\ \E k \in DOMAIN counter.cart :
                counter.stock[counter.cart[k].product_id] < counter.cart[k].qty )
          => /\ UNCHANGED <<sales, saleItems>>
             /\ counter'.stock = counter.stock]_vars

\* A checkout was refused: the cart holds a line within the stock and a line
\* above it (the same product added twice), and nothing is stored.
C30_Witness ==
    /\ counter.refused
    /\ Len(counter.cart) = 2
    /\ \E k \in DOMAIN counter.cart :
           counter.stock[counter.cart[k].product_id] < counter.cart[k].qty
    /\ \E k \in DOMAIN counter.cart :
           /\ counter.cart[k].qty > 0
           /\ counter.stock[counter.cart[k].product_id] >= counter.cart[k].qty
    /\ sales = <<>>
    /\ saleItems = <<>>
====
